---- MODULE Spec2Model ----
(***************************************************************************)
(* Model of the intent-to-device reconciliation scripts:                   *)
(*   push_config.py    (RESTCONF apply / check over a device inventory)    *)
(*   meraki_config.py  (SSID diff and update on the cloud controller)      *)
(*   verify_meraki.py  (SSID read-back)                                    *)
(*                                                                         *)
(* Python values are modelled as follows.  A dict is a sequence of         *)
(* <<key, value>> pairs in insertion order; a list is a sequence; None is  *)
(* the string None; a key that dict.get() does not find reads as None, as  *)
(* in Python.  An uncaught exception ends the program: pc = "crashed" and  *)
(* exc names the exception.                                                *)
(***************************************************************************)
EXTENDS Integers, Sequences, FiniteSets, TLC

VARIABLES
    \* ---- push_config.py : main() ----
    args,             \* [apply, check] : the parsed command line flags
    intent,           \* the loaded intent document
    devices,          \* devices_cfg["devices"]
    pc,               \* position of main()
    native_payload,   \* build_native_payload(intent)
    i,                \* index of the device the for loop is at
    k,                \* index of the loopback the inner loop is at
    status,           \* the status dict of the current device
    results,          \* the local list of check_loopbacks
    overall_results,  \* the report being assembled
    summary,          \* the summary handed to the report writer
    wire,             \* the requests the devices received, in order
    exc,              \* the uncaught exception that ended main(), or None
    faults,           \* number of non-nominal device responses so far
    \* ---- build_native_payload as a pure function ----
    b_pc, b_intent, b_body,
    \* ---- meraki_config.py / verify_meraki.py ----
    m_prog,           \* which script runs
    m_pc,             \* position of its main()
    m_run,            \* number of the invocation (the script is run twice)
    m_intent,         \* intents/meraki_wifi.yaml
    m_orgs, m_nets,   \* what the controller lists
    m_ssid,           \* the SSID as the controller holds it
    m_forbidden,      \* the API key is read-only (update answers 403)
    m_ids,            \* result of find_ids
    m_current, m_desired, m_changes,
    m_calls,          \* controller API calls of the current invocation
    m_writes,         \* per invocation, the update payloads issued
    m_exit,           \* how the invocation ended
    \* ---- collect_inventory.py / collect_device_info.py : get_serial_number ----
    s_prog,           \* which script's get_serial_number runs
    s_pc,             \* position of get_serial_number
    s_answers,        \* what the device answers to each candidate path
    s_idx,            \* index of the candidate the for loop is at
    s_reads,          \* the paths read so far, in order
    s_result          \* the value returned

pushVars == <<args, intent, devices, pc, native_payload, i, k, status, results,
              overall_results, summary, wire, exc, faults>>
buildVars == <<b_pc, b_intent, b_body>>
merakiVars == <<m_prog, m_pc, m_run, m_intent, m_orgs, m_nets, m_ssid, m_forbidden,
                m_ids, m_current, m_desired, m_changes, m_calls, m_writes, m_exit>>
serialVars == <<s_prog, s_pc, s_answers, s_idx, s_reads, s_result>>
vars == <<pushVars, buildVars, merakiVars, serialVars>>

----------------------------------------------------------------------------
(* Bounds of the model *)

\* longest device inventory
MaxDevices == 2
\* longest loopback list of an intent
MaxLoopbacks == 2
\* most device answers of one run that are not the nominal one (a failed or
\* refused write, a read that fails or returns something else than the intent)
MaxFaults == 1

----------------------------------------------------------------------------
(* Python values *)

None == "None"
Absent == "<absent>"

\* dict.get(key, default)
RECURSIVE DictGet(_, _, _)
DictGet(d, key, default) ==
    IF d = <<>> THEN default
    ELSE IF d[1][1] = key THEN d[1][2]
    ELSE DictGet(Tail(d), key, default)

\* key in dict
HasKey(d, key) == \E n \in 1..Len(d) : d[n][1] = key

\* the keys of a dict, in insertion order
Keys(d) == [n \in 1..Len(d) |-> d[n][1]]

\* the elements of a list
Range(seq) == { seq[n] : n \in 1..Len(seq) }

\* truth value of a string-or-None
Truthy(v) == v # None /\ v # ""

----------------------------------------------------------------------------
(* push_config.py : payload builders *)

NativeKey == "Cisco-IOS-XE-native:native"

\* A slip of the comprehension: the entries come out in reverse input order.
NtpServerListReversed(servers) ==
    [n \in 1..Len(servers) |-> << <<"ip-address", servers[Len(servers) + 1 - n]>> >>]

\* [{"ip-address": ip} for ip in servers]
NtpServerList(servers) == [n \in 1..Len(servers) |-> << <<"ip-address", servers[n]>> >>]

\* A slip of the key guards: hostname is emitted whenever the key is looked up,
\* so an intent without it puts "hostname": None into the document.
build_native_payload_unguarded(it) ==
    LET sys == it.system
        ntp == it.ntp
        servers == DictGet(ntp, "servers", <<>>)
        native ==
            << <<"hostname", DictGet(sys, "hostname", None)>> >>
            \o (IF Truthy(DictGet(sys, "domain_name", None))
                THEN << <<"ip", << <<"domain", << <<"name", DictGet(sys, "domain_name", None)>> >> >> >> >> >>
                ELSE <<>>)
            \o (IF Truthy(DictGet(sys, "banner_motd", None))
                THEN << <<"banner", << <<"motd", << <<"banner", DictGet(sys, "banner_motd", None)>> >> >> >> >> >>
                ELSE <<>>)
            \o (IF servers # <<>>
                THEN << <<"ntp", << <<"server", NtpServerList(servers)>> >> >> >>
                ELSE <<>>)
    IN  << <<NativeKey, native>> >>

build_native_payload(it) ==
    LET sys == it.system
        ntp == it.ntp
        servers == DictGet(ntp, "servers", <<>>)
        native ==
            (IF Truthy(DictGet(sys, "hostname", None))
                THEN << <<"hostname", DictGet(sys, "hostname", None)>> >>
                ELSE <<>>)
            \o (IF Truthy(DictGet(sys, "domain_name", None))
                THEN << <<"ip", << <<"domain", << <<"name", DictGet(sys, "domain_name", None)>> >> >> >> >> >>
                ELSE <<>>)
            \o (IF Truthy(DictGet(sys, "banner_motd", None))
                THEN << <<"banner", << <<"motd", << <<"banner", DictGet(sys, "banner_motd", None)>> >> >> >> >> >>
                ELSE <<>>)
            \o (IF servers # <<>>
                THEN << <<"ntp", << <<"server", NtpServerList(servers)>> >> >> >>
                ELSE <<>>)
    IN  << <<NativeKey, native>> >>

\* f"Loopback{lb['name']}"
LoopbackName(lb) == "Loopback" \o ToString(lb.name)

build_ietf_loopback_payload(lb) ==
    << <<"ietf-interfaces:interface",
         << <<"name", LoopbackName(lb)>>,
            <<"type", "iana-if-type:softwareLoopback">>,
            <<"enabled", TRUE>>,
            <<"ietf-ip:ipv4",
              << <<"address", << << <<"ip", lb.ip>>, <<"netmask", lb.mask>> >> >> >> >> >> >> >> >>

\* the request restconf_patch_native sends
restconf_patch_native(dev, payload) ==
    [dev |-> dev, method |-> "PATCH", path |-> "Cisco-IOS-XE-native:native", data |-> payload]

\* the request restconf_put_interface sends
restconf_put_interface(dev, if_name, payload) ==
    [dev |-> dev, method |-> "PUT",
     path |-> "ietf-interfaces:interfaces/interface=" \o if_name, data |-> payload]

\* the request rc_get sends
GetRequest(dev, path) == [dev |-> dev, method |-> "GET", path |-> path, data |-> <<>>]

----------------------------------------------------------------------------
(* What a device may answer.  A response is what requests hands back:      *)
(* raise = TRUE is a transport error (requests raises instead of           *)
(* returning); content says whether the body is empty, parses as JSON      *)
(* (json is the parsed document) or does not parse (text is the raw body). *)

Raise == [raise |-> TRUE, status_code |-> 0, content |-> "empty", json |-> <<>>, text |-> ""]
JsonResp(code, doc) ==
    [raise |-> FALSE, status_code |-> code, content |-> "json", json |-> doc, text |-> "json"]
GarbageResp(code, text) ==
    [raise |-> FALSE, status_code |-> code, content |-> "garbage", json |-> <<>>, text |-> text]
EmptyResp(code) ==
    [raise |-> FALSE, status_code |-> code, content |-> "empty", json |-> <<>>, text |-> ""]

ErrorDoc == << <<"ietf-restconf:errors", "uri keypath not found">> >>

\* the answer of a healthy device to the hostname read
HostnameNominal == JsonResp(200, << <<"Cisco-IOS-XE-native:hostname", "BR1">> >>)

HostnameResponses ==
    { Raise,
      HostnameNominal,
      JsonResp(200, << <<"Cisco-IOS-XE-native:hostname", "OLD">> >>),
      GarbageResp(200, "<html>"),
      EmptyResp(200),
      JsonResp(404, ErrorDoc) }

InterfaceDoc(addrs) ==
    << <<"ietf-interfaces:interface",
         << <<"name", "Loopback">>, <<"ietf-ip:ipv4", << <<"address", addrs>> >> >> >> >> >>

\* the answer of a healthy device to the read of the loopback lb
LoopbackNominal(lb) == JsonResp(200, InterfaceDoc(<< << <<"ip", lb.ip>>, <<"netmask", lb.mask>> >> >>))

LoopbackResponses(lb) ==
    { Raise,
      LoopbackNominal(lb),
      JsonResp(200, InterfaceDoc(<< << <<"ip", "10.9.9.9">> >>, << <<"ip", lb.ip>> >> >>)),
      JsonResp(200, InterfaceDoc(<<>>)),
      JsonResp(200, << <<"ietf-interfaces:interface", << <<"name", "Loopback">> >> >> >>),
      GarbageResp(200, "<html>"),
      JsonResp(404, ErrorDoc) }

\* the answer of a healthy device to a write
WriteNominal == EmptyResp(204)

WriteResponses == { Raise, WriteNominal, GarbageResp(400, "invalid-value") }

\* requests.Response.ok
Response_ok(r) == r.status_code < 400

----------------------------------------------------------------------------
(* push_config.py : reads and checks *)

\* rc_get: <<status_code, body>> of a response that did not raise
rc_get(r) ==
    << r.status_code,
       IF r.content = "empty" THEN <<>>
       ELSE IF r.content = "json" THEN r.json
       ELSE << <<"_raw", r.text>> >> >>

\* the exception check_hostname lets through, or None
check_hostname_raises(r) ==
    IF r.raise THEN "ConnectionError"
    ELSE IF rc_get(r)[1] = 200 /\ rc_get(r)[2] = <<>> THEN "StopIteration"
    ELSE None

\* the record check_hostname returns when it does not raise
check_hostname(r, intent_hostname) ==
    LET code == rc_get(r)[1]
        body == rc_get(r)[2]
        actual == IF code = 200 THEN body[1][2] ELSE None
    IN  [item |-> "hostname", intent |-> intent_hostname, actual |-> actual,
         http |-> code, match |-> (intent_hostname = actual)]

\* the exception one iteration of check_loopbacks lets through, or None
check_loopback_raises(r) == IF r.raise THEN "ConnectionError" ELSE None

\* the record one iteration of check_loopbacks appends
check_loopback(r, lb) ==
    LET name == LoopbackName(lb)
        code == rc_get(r)[1]
        body == rc_get(r)[2]
        iface == DictGet(body, "ietf-interfaces:interface", <<>>)
        addrs == DictGet(DictGet(iface, "ietf-ip:ipv4", <<>>), "address", <<>>)
        actual_ip == IF code = 200 /\ addrs # <<>> THEN DictGet(addrs[1], "ip", None) ELSE None
    IN  [item |-> "interface-" \o name, intent |-> lb.ip, actual |-> actual_ip,
         http |-> code, match |-> (lb.ip = actual_ip)]

----------------------------------------------------------------------------
(* push_config.py : inputs of a run *)

Loopback(n) == [name |-> 100 * n, ip |-> "10.0.0." \o ToString(n), mask |-> "255.255.255.255"]

\* loopback lists of the intent: the first n pool entries, in either order
LoopbackLists ==
    UNION { { [m \in 1..n |-> Loopback(m)], [m \in 1..n |-> Loopback(n + 1 - m)] } : n \in 0..MaxLoopbacks }

\* a dict from optional entries: an Absent value leaves the key out
Opt(key, v) == IF v = Absent THEN <<>> ELSE << <<key, v>> >>

SystemDict(hostname, domain_name, banner_motd) ==
    Opt("hostname", hostname) \o Opt("domain_name", domain_name) \o Opt("banner_motd", banner_motd)

NtpServers == <<"192.0.2.1", "192.0.2.2">>

\* the system and ntp sections the runs are started with
MainSections ==
    { <<SystemDict(Absent, Absent, Absent), <<>>>>,
      <<SystemDict("BR1", Absent, Absent), <<>>>>,
      <<SystemDict("", Absent, Absent), <<>>>>,
      <<SystemDict(Absent, Absent, Absent), << <<"servers", NtpServers>> >> >>,
      <<SystemDict("BR1", "lab.local", "hi"), << <<"servers", NtpServers>> >> >> }

MainIntents ==
    { [system |-> s[1], ntp |-> s[2], loopbacks |-> l] : s \in MainSections, l \in LoopbackLists }

\* a device descriptor of devices.yaml; Absent marks a key the entry lacks
Device(n, complete) ==
    [name |-> IF n = 1 THEN "R1" ELSE None,
     host |-> "https://10.1.1." \o ToString(n) \o "/",
     username |-> IF complete THEN "admin" ELSE Absent,
     password |-> "secret",
     verify_tls |-> FALSE]

Inventories ==
    UNION { { [n \in 1..len |-> Device(n, c[n])] : c \in [1..len -> BOOLEAN] } : len \in 0..MaxDevices }

\* before the loop reaches a device there is no status dict
NoStatus == [device_name |-> None, host |-> None, steps |-> <<>>, checks |-> <<>>]

InitPush ==
    /\ args \in [apply : BOOLEAN, check : BOOLEAN]
    /\ intent \in MainIntents
    /\ devices \in Inventories
    /\ pc = "start"
    /\ native_payload = <<>>
    /\ i = 0
    /\ k = 0
    /\ status = NoStatus
    /\ results = <<>>
    /\ overall_results = <<>>
    /\ summary = <<>>
    /\ wire = <<>>
    /\ exc = None
    /\ faults = 0

\* the other programs, when they do not run
IdleBuild == b_pc = "idle" /\ b_intent = <<>> /\ b_body = <<>>

IdleMeraki ==
    /\ m_prog = "none" /\ m_pc = "idle" /\ m_run = 0 /\ m_intent = <<>>
    /\ m_orgs = <<>> /\ m_nets = <<>> /\ m_ssid = <<>> /\ m_forbidden = FALSE
    /\ m_ids = <<>> /\ m_current = <<>> /\ m_desired = <<>> /\ m_changes = <<>>
    /\ m_calls = <<>> /\ m_writes = <<>> /\ m_exit = None

IdleSerial ==
    /\ s_prog = "none" /\ s_pc = "idle" /\ s_answers = <<>> /\ s_idx = 0
    /\ s_reads = <<>> /\ s_result = None

IdlePush ==
    /\ args = [apply |-> FALSE, check |-> FALSE]
    /\ intent = [system |-> <<>>, ntp |-> <<>>, loopbacks |-> <<>>]
    /\ devices = <<>>
    /\ pc = "idle"
    /\ native_payload = <<>>
    /\ i = 0
    /\ k = 0
    /\ status = NoStatus
    /\ results = <<>>
    /\ overall_results = <<>>
    /\ summary = <<>>
    /\ wire = <<>>
    /\ exc = None
    /\ faults = 0

Init == InitPush /\ IdleBuild /\ IdleMeraki /\ IdleSerial

----------------------------------------------------------------------------
(* push_config.py : main() *)

\* A slip of the loop source: the loopbacks are walked last entry first.
lbsReversed == [n \in 1..Len(intent.loopbacks) |-> intent.loopbacks[Len(intent.loopbacks) + 1 - n]]

lbs == intent.loopbacks

\* an uncaught exception leaves main()
Crash(e) == pc' = "crashed" /\ exc' = e

\* a device answer costs one unit of the fault budget unless it is nominal
Spend(r, nominal) ==
    /\ faults + (IF r = nominal THEN 0 ELSE 1) <= MaxFaults
    /\ faults' = faults + (IF r = nominal THEN 0 ELSE 1)

Step(op, r) ==
    [op |-> op, http |-> r.status_code, ok |-> Response_ok(r),
     err |-> IF Response_ok(r) THEN None ELSE r.text]

\* lines 148-167
Prepare ==
    /\ pc = "start"
    /\ IF devices = <<>>
       THEN /\ Crash("SystemExit: No devices found in devices.yaml")
            /\ UNCHANGED <<native_payload, i>>
       ELSE /\ native_payload' = build_native_payload(intent)
            /\ i' = 1
            /\ pc' = "device"
            /\ UNCHANGED exc
    /\ UNCHANGED <<args, intent, devices, k, status, results, overall_results, summary,
                   wire, faults>>
    /\ UNCHANGED <<buildVars, merakiVars, serialVars>>

\* lines 170-177
BeginDevice ==
    /\ pc = "device"
    /\ LET dev == devices[i] IN
       IF dev.host = Absent
       THEN Crash("KeyError: host") /\ UNCHANGED status
       ELSE IF dev.username = Absent
       THEN Crash("KeyError: username") /\ UNCHANGED status
       ELSE IF dev.password = Absent
       THEN Crash("KeyError: password") /\ UNCHANGED status
       ELSE /\ status' = [device_name |-> IF Truthy(dev.name) THEN dev.name ELSE dev.host,
                          host |-> dev.host, steps |-> <<>>, checks |-> <<>>]
            /\ pc' = "apply"
            /\ UNCHANGED exc
    /\ UNCHANGED <<args, intent, devices, native_payload, i, k, results, overall_results,
                   summary, wire, faults>>
    /\ UNCHANGED <<buildVars, merakiVars, serialVars>>

\* where main() goes after the apply block
AfterApply == IF args.check THEN "check" ELSE "append"

\* lines 180-185
ApplyNative ==
    /\ pc = "apply"
    /\ args.apply
    /\ IF DictGet(native_payload, NativeKey, <<>>) # <<>>
       THEN \E r \in WriteResponses :
            /\ Spend(r, WriteNominal)
            /\ wire' = Append(wire, restconf_patch_native(i, native_payload))
            /\ IF r.raise
               THEN Crash("ConnectionError") /\ UNCHANGED <<status, k>>
               ELSE /\ status' = [status EXCEPT !.steps = Append(@, Step("native-patch", r))]
                    /\ pc' = IF lbs # <<>> THEN "loopbacks" ELSE AfterApply
                    /\ k' = 1
                    /\ UNCHANGED exc
       ELSE /\ pc' = IF lbs # <<>> THEN "loopbacks" ELSE AfterApply
            /\ k' = 1
            /\ UNCHANGED <<status, wire, exc, faults>>
    /\ UNCHANGED <<args, intent, devices, native_payload, i, results, overall_results, summary>>
    /\ UNCHANGED <<buildVars, merakiVars, serialVars>>

\* lines 186-192, one iteration
PutLoopback ==
    /\ pc = "loopbacks"
    /\ LET lb == lbs[k]
           if_name == LoopbackName(lb)
           payload == build_ietf_loopback_payload(lb)
       IN  \E r \in WriteResponses :
           /\ Spend(r, WriteNominal)
           /\ wire' = Append(wire, restconf_put_interface(i, if_name, payload))
           /\ IF r.raise
              THEN Crash("ConnectionError") /\ UNCHANGED <<status, k>>
              ELSE /\ status' = [status EXCEPT !.steps = Append(@, Step("put-" \o if_name, r))]
                   /\ k' = k + 1
                   /\ pc' = IF k = Len(lbs) THEN AfterApply ELSE "loopbacks"
                   /\ UNCHANGED exc
    /\ UNCHANGED <<args, intent, devices, native_payload, i, results, overall_results, summary>>
    /\ UNCHANGED <<buildVars, merakiVars, serialVars>>

\* A slip of the else branch: the steps of a run without apply stay empty.
DryRunSilent ==
    /\ pc = "apply"
    /\ ~args.apply
    /\ pc' = AfterApply
    /\ UNCHANGED <<args, intent, devices, native_payload, i, k, status, results,
                   overall_results, summary, wire, exc, faults>>
    /\ UNCHANGED <<buildVars, merakiVars, serialVars>>

\* lines 193-194
DryRun ==
    /\ pc = "apply"
    /\ ~args.apply
    /\ status' = [status EXCEPT !.steps =
                      Append(@, [op |-> "dry-run", http |-> None, ok |-> TRUE, err |-> None])]
    /\ pc' = AfterApply
    /\ UNCHANGED <<args, intent, devices, native_payload, i, k, results, overall_results,
                   summary, wire, exc, faults>>
    /\ UNCHANGED <<buildVars, merakiVars, serialVars>>

\* lines 197-199
CheckHostname ==
    /\ pc = "check"
    /\ \E r \in HostnameResponses :
       /\ Spend(r, HostnameNominal)
       /\ wire' = Append(wire, GetRequest(i, "Cisco-IOS-XE-native:native/hostname"))
       /\ IF check_hostname_raises(r) # None
          THEN Crash(check_hostname_raises(r)) /\ UNCHANGED <<status, k, results>>
          ELSE /\ status' = [status EXCEPT !.checks =
                     Append(@, check_hostname(r, DictGet(intent.system, "hostname", None)))]
               /\ pc' = IF lbs # <<>> THEN "check_loopbacks" ELSE "append"
               /\ k' = 1
               /\ results' = <<>>
               /\ UNCHANGED exc
    /\ UNCHANGED <<args, intent, devices, native_payload, i, overall_results, summary>>
    /\ UNCHANGED <<buildVars, merakiVars, serialVars>>

\* line 200 and lines 108-127, one iteration; the last one hands the list back
CheckLoopback ==
    /\ pc = "check_loopbacks"
    /\ LET lb == lbs[k] IN
       \E r \in LoopbackResponses(lb) :
       /\ Spend(r, LoopbackNominal(lb))
       /\ wire' = Append(wire, GetRequest(i, "ietf-interfaces:interfaces/interface=" \o LoopbackName(lb)))
       /\ IF check_loopback_raises(r) # None
          THEN Crash(check_loopback_raises(r)) /\ UNCHANGED <<status, k, results>>
          ELSE /\ results' = Append(results, check_loopback(r, lb))
               /\ k' = k + 1
               /\ IF k = Len(lbs)
                  THEN /\ status' = [status EXCEPT !.checks = @ \o results']
                       /\ pc' = "append"
                  ELSE /\ pc' = "check_loopbacks"
                       /\ UNCHANGED status
               /\ UNCHANGED exc
    /\ UNCHANGED <<args, intent, devices, native_payload, i, overall_results, summary>>
    /\ UNCHANGED <<buildVars, merakiVars, serialVars>>

\* line 202 and the loop's step to the next device
AppendStatus ==
    /\ pc = "append"
    /\ overall_results' = Append(overall_results, status)
    /\ i' = i + 1
    /\ pc' = IF i = Len(devices) THEN "summary" ELSE "device"
    /\ UNCHANGED <<args, intent, devices, native_payload, k, status, results, summary,
                   wire, exc, faults>>
    /\ UNCHANGED <<buildVars, merakiVars, serialVars>>

\* lines 206-208
SaveSummary ==
    /\ pc = "summary"
    /\ summary' = << [intent |-> intent, results |-> overall_results, mode |-> args] >>
    /\ pc' = "done"
    /\ UNCHANGED <<args, intent, devices, native_payload, i, k, status, results,
                   overall_results, wire, exc, faults>>
    /\ UNCHANGED <<buildVars, merakiVars, serialVars>>

Next ==
    \/ Prepare
    \/ BeginDevice
    \/ ApplyNative
    \/ PutLoopback
    \/ DryRun
    \/ CheckHostname
    \/ CheckLoopback
    \/ AppendStatus
    \/ SaveSummary

Spec == Init /\ [][Next]_vars

----------------------------------------------------------------------------
(* build_native_payload on its own: every intent of the bounded domain *)

BuildSystems ==
    { SystemDict(h, d, b) : h \in {Absent, None, "", "BR1"},
                            d \in {Absent, "", "lab.local"},
                            b \in {Absent, "", "hi"} }

BuildNtps ==
    { <<>>,
      << <<"servers", <<>>>> >>,
      << <<"servers", <<"192.0.2.1">>>> >>,
      << <<"servers", <<"192.0.2.1", "192.0.2.2">>>> >>,
      << <<"servers", <<"192.0.2.2", "192.0.2.1">>>> >> }

BuildIntents == { [system |-> s, ntp |-> n, loopbacks |-> <<>>] : s \in BuildSystems, n \in BuildNtps }

InitBuild ==
    /\ b_pc = "ready"
    /\ b_intent \in BuildIntents
    /\ b_body = <<>>
    /\ IdlePush
    /\ IdleMeraki
    /\ IdleSerial

BuildNative ==
    /\ b_pc = "ready"
    /\ b_body' = build_native_payload(b_intent)
    /\ b_pc' = "built"
    /\ UNCHANGED <<b_intent, pushVars, merakiVars, serialVars>>

NextBuild == BuildNative

SpecBuild == InitBuild /\ [][NextBuild]_vars

----------------------------------------------------------------------------
(* meraki_config.py and verify_meraki.py *)

\* {k: v for k, v in d.items() if v is not None}
DropNone(d) == SelectSeq(d, LAMBDA p : p[2] # None)

\* {k: v for k, v in desired.items() if current.get(k) != v}
Changes(desired, current) == SelectSeq(desired, LAMBDA p : DictGet(current, p[1], None) # p[2])

\* the controller stores the fields of an update over the SSID it holds
RECURSIVE DictSet(_, _, _)
DictSet(d, key, v) ==
    IF d = <<>> THEN << <<key, v>> >>
    ELSE IF d[1][1] = key THEN << <<key, v>> >> \o Tail(d)
    ELSE <<d[1]>> \o DictSet(Tail(d), key, v)

RECURSIVE DictUpdate(_, _)
DictUpdate(d, fields) ==
    IF fields = <<>> THEN d
    ELSE DictUpdate(DictSet(d, fields[1][1], fields[1][2]), Tail(fields))

\* next((x for x in xs if x["name"] == name), None): index of the first match, 0 for None
RECURSIVE FirstNamed(_, _, _)
FirstNamed(xs, name, from) ==
    IF from > Len(xs) THEN 0
    ELSE IF xs[from].name = name THEN from
    ELSE FirstNamed(xs, name, from + 1)

Org(id, name) == [id |-> id, name |-> name]

OrgLists ==
    { <<>>, <<Org("o1", "Acme")>>, <<Org("o2", "Other"), Org("o1", "Acme")>>, <<Org("o2", "Other")>> }

NetLists ==
    { <<>>, <<Org("n1", "HQ")>>, <<Org("n2", "Lab"), Org("n1", "HQ")>>, <<Org("n2", "Lab")>> }

\* the SSIDs the controller may hold
SsidStates ==
    { << <<"name", n>>, <<"enabled", e>>, <<"authMode", "psk">> >> \o Opt("psk", p)
         \o << <<"ipAssignmentMode", m>> >> :
      n \in {"corp", "guest"}, e \in {"True", "False"}, p \in {Absent, "p1"},
      m \in {"NAT mode", "Bridge mode"} }

MerakiIntents ==
    { [target |-> [organization_name |-> "Acme", network_name |-> "HQ"],
       ssid |-> << <<"number", "0">>, <<"name", "corp">>, <<"enabled", "True">>,
                   <<"authMode", "psk">> >> \o Opt("psk", p) \o Opt("ipAssignmentMode", m)] :
      p \in {Absent, "p1"}, m \in {Absent, "Bridge mode"} }

InitMeraki ==
    /\ m_prog \in {"meraki_config", "verify_meraki"}
    /\ m_pc = "find_ids"
    /\ m_run = 1
    /\ m_intent \in MerakiIntents
    /\ m_orgs \in OrgLists
    /\ m_nets \in NetLists
    /\ m_ssid \in SsidStates
    /\ m_forbidden \in BOOLEAN
    /\ m_ids = <<>>
    /\ m_current = <<>>
    /\ m_desired = <<>>
    /\ m_changes = <<>>
    /\ m_calls = <<>>
    /\ m_writes = <<<<>>, <<>>>>
    /\ m_exit = None
    /\ IdlePush
    /\ IdleBuild
    /\ IdleSerial

\* meraki_config.py, find_ids (called at line 27)
MerakiFindIds ==
    /\ m_prog = "meraki_config"
    /\ m_pc = "find_ids"
    /\ LET org == FirstNamed(m_orgs, m_intent.target.organization_name, 1)
           net == FirstNamed(m_nets, m_intent.target.network_name, 1)
       IN  IF org = 0
           THEN /\ m_calls' = Append(m_calls, "getOrganizations")
                /\ m_pc' = "aborted"
                /\ m_exit' = "SystemExit: Org not found"
                /\ UNCHANGED m_ids
           ELSE IF net = 0
           THEN /\ m_calls' = m_calls \o <<"getOrganizations", "getOrganizationNetworks">>
                /\ m_pc' = "aborted"
                /\ m_exit' = "SystemExit: Network not found in org"
                /\ UNCHANGED m_ids
           ELSE /\ m_calls' = m_calls \o <<"getOrganizations", "getOrganizationNetworks">>
                /\ m_ids' = <<m_orgs[org].id, m_nets[net].id>>
                /\ m_pc' = "get_ssid"
                /\ UNCHANGED m_exit
    /\ UNCHANGED <<m_prog, m_run, m_intent, m_orgs, m_nets, m_ssid, m_forbidden,
                   m_current, m_desired, m_changes, m_writes>>
    /\ UNCHANGED <<pushVars, buildVars, serialVars>>

\* verify_meraki.py, find_ids: next() has no default, so no match raises StopIteration
VerifyFindIds ==
    /\ m_prog = "verify_meraki"
    /\ m_pc = "find_ids"
    /\ LET org == FirstNamed(m_orgs, m_intent.target.organization_name, 1)
           net == FirstNamed(m_nets, m_intent.target.network_name, 1)
       IN  IF org = 0
           THEN /\ m_calls' = Append(m_calls, "getOrganizations")
                /\ m_pc' = "aborted"
                /\ m_exit' = "StopIteration"
                /\ UNCHANGED m_ids
           ELSE IF net = 0
           THEN /\ m_calls' = m_calls \o <<"getOrganizations", "getOrganizationNetworks">>
                /\ m_pc' = "aborted"
                /\ m_exit' = "StopIteration"
                /\ UNCHANGED m_ids
           ELSE /\ m_calls' = m_calls \o <<"getOrganizations", "getOrganizationNetworks">>
                /\ m_ids' = <<m_orgs[org].id, m_nets[net].id>>
                /\ m_pc' = "get_ssid"
                /\ UNCHANGED m_exit
    /\ UNCHANGED <<m_prog, m_run, m_intent, m_orgs, m_nets, m_ssid, m_forbidden,
                   m_current, m_desired, m_changes, m_writes>>
    /\ UNCHANGED <<pushVars, buildVars, serialVars>>

\* meraki_config.py line 30 / verify_meraki.py line 23
GetSsid ==
    /\ m_pc = "get_ssid"
    /\ m_calls' = Append(m_calls, "getNetworkWirelessSsid")
    /\ m_current' = m_ssid
    /\ m_pc' = IF m_prog = "meraki_config" THEN "diff" ELSE "print"
    /\ UNCHANGED <<m_prog, m_run, m_intent, m_orgs, m_nets, m_ssid, m_forbidden,
                   m_ids, m_desired, m_changes, m_writes, m_exit>>
    /\ UNCHANGED <<pushVars, buildVars, serialVars>>

\* meraki_config.py lines 33-39
Desired(ssid_spec) ==
    << <<"name", DictGet(ssid_spec, "name", None)>>,
       <<"enabled", DictGet(ssid_spec, "enabled", None)>>,
       <<"authMode", DictGet(ssid_spec, "authMode", None)>>,
       <<"psk", DictGet(ssid_spec, "psk", None)>>,
       <<"ipAssignmentMode", DictGet(ssid_spec, "ipAssignmentMode", None)>> >>

\* meraki_config.py lines 33-51
MerakiDiff ==
    /\ m_pc = "diff"
    /\ m_desired' = Desired(m_intent.ssid)
    /\ m_changes' = Changes(Desired(m_intent.ssid), m_current)
    /\ m_pc' = "apply"
    /\ UNCHANGED <<m_prog, m_run, m_intent, m_orgs, m_nets, m_ssid, m_forbidden,
                   m_ids, m_current, m_calls, m_writes, m_exit>>
    /\ UNCHANGED <<pushVars, buildVars, serialVars>>

\* meraki_config.py lines 54-64
MerakiUpdate ==
    /\ m_pc = "apply"
    /\ IF m_changes # <<>>
       THEN /\ m_calls' = Append(m_calls, "updateNetworkWirelessSsid")
            /\ m_writes' = [m_writes EXCEPT ![m_run] = Append(@, DropNone(m_changes))]
            /\ \/ /\ ~m_forbidden
                  /\ m_ssid' = DictUpdate(m_ssid, DropNone(m_changes))
                  /\ m_pc' = "done"
                  /\ UNCHANGED m_exit
               \/ /\ m_forbidden
                  /\ m_pc' = "done"
                  /\ UNCHANGED <<m_ssid, m_exit>>
               \/ /\ ~m_forbidden
                  /\ m_pc' = "aborted"
                  /\ m_exit' = "APIError"
                  /\ UNCHANGED m_ssid
       ELSE /\ m_pc' = "done"
            /\ UNCHANGED <<m_calls, m_writes, m_ssid, m_exit>>
    /\ UNCHANGED <<m_prog, m_run, m_intent, m_orgs, m_nets, m_forbidden,
                   m_ids, m_current, m_desired, m_changes>>
    /\ UNCHANGED <<pushVars, buildVars, serialVars>>

\* verify_meraki.py lines 24-32
VerifyPrint ==
    /\ m_pc = "print"
    /\ m_pc' = "done"
    /\ UNCHANGED <<m_prog, m_run, m_intent, m_orgs, m_nets, m_ssid, m_forbidden,
                   m_ids, m_current, m_desired, m_changes, m_calls, m_writes, m_exit>>
    /\ UNCHANGED <<pushVars, buildVars, serialVars>>

\* the script is invoked a second time with the same intent file
Rerun ==
    /\ m_pc = "done"
    /\ m_run = 1
    /\ m_run' = 2
    /\ m_pc' = "find_ids"
    /\ m_ids' = <<>>
    /\ m_current' = <<>>
    /\ m_desired' = <<>>
    /\ m_changes' = <<>>
    /\ m_calls' = <<>>
    /\ UNCHANGED <<m_prog, m_intent, m_orgs, m_nets, m_ssid, m_forbidden, m_writes, m_exit>>
    /\ UNCHANGED <<pushVars, buildVars, serialVars>>

NextMeraki ==
    \/ MerakiFindIds
    \/ VerifyFindIds
    \/ GetSsid
    \/ MerakiDiff
    \/ MerakiUpdate
    \/ VerifyPrint
    \/ Rerun

SpecMeraki == InitMeraki /\ [][NextMeraki]_vars

----------------------------------------------------------------------------
(* collect_inventory.py and collect_device_info.py : get_serial_number      *)
(* rc_get of these scripts returns None for a read that fails; its only use *)
(* is `if not data`, which None and {} answer alike, so None is the empty   *)
(* document here.                                                           *)

InventoryKey == "Cisco-IOS-XE-device-hardware-oper:device-inventory"
InformationKey == "Cisco-IOS-XE-device-hardware-oper:device-information"

Candidates ==
    << "Cisco-IOS-XE-device-hardware-oper:device-hardware-data/device-hardware/device-inventory",
       "Cisco-IOS-XE-device-hardware-oper:device-hardware-data/device-hardware/device-information" >>

\* what the device may answer to a candidate path
SerialResponses ==
    { Raise,
      JsonResp(404, ErrorDoc),
      GarbageResp(200, "<html>"),
      EmptyResp(204),
      JsonResp(200, <<>>),
      JsonResp(200, << <<InventoryKey, << << <<"part-number", "serial-console">> >> >> >> >>),
      JsonResp(200, << <<InventoryKey, << << <<"serial-number", "">> >> >> >> >>),
      JsonResp(200, << <<InventoryKey, << << <<"part-number", "C9300">> >>,
                                           << <<"serial-number", "SN1">> >>,
                                           << <<"serial", "SN2">> >> >> >> >>),
      JsonResp(200, << <<InformationKey, << <<"serial-number", "SN3">> >> >> >>),
      JsonResp(200, << <<InformationKey, << <<"serial", "">> >> >> >>),
      JsonResp(200, << <<InventoryKey, << << <<"part-number", "C9300">> >> >> >>,
                       <<InformationKey, << <<"serial", "SN4">> >> >> >>) }

\* data of rc_get(...): the parsed body of an ok answer, no data otherwise
rc_get_data(r) ==
    IF r.raise THEN <<>>
    ELSE IF Response_ok(r) /\ r.content = "json" THEN r.json
    ELSE <<>>

\* item.get("serial-number") or item.get("serial")
SerialOf(item) ==
    IF Truthy(DictGet(item, "serial-number", None))
    THEN DictGet(item, "serial-number", None)
    ELSE DictGet(item, "serial", None)

\* the inner loop over the inventory list: the first serial that is set, or None
RECURSIVE FirstInList(_, _)
FirstInList(inv, from) ==
    IF from > Len(inv) THEN None
    ELSE IF Truthy(SerialOf(inv[from])) THEN SerialOf(inv[from])
    ELSE FirstInList(inv, from + 1)

\* body of the candidate loop of collect_inventory.get_serial_number
Extract(data) ==
    IF Truthy(FirstInList(DictGet(data, InventoryKey, <<>>), 1))
    THEN FirstInList(DictGet(data, InventoryKey, <<>>), 1)
    ELSE IF Truthy(SerialOf(DictGet(data, InformationKey, <<>>)))
    THEN SerialOf(DictGet(data, InformationKey, <<>>))
    ELSE None

\* every key and string value of a hardware document, as json.dumps writes them
Strings(data) ==
    Range(Keys(data))
    \cup UNION { { it[f][e] : f \in 1..Len(it), e \in 1..2 } :
                 it \in Range(DictGet(data, InventoryKey, <<>>)) }
    \cup { DictGet(data, InformationKey, <<>>)[f][e] :
           f \in 1..Len(DictGet(data, InformationKey, <<>>)), e \in 1..2 }

\* the strings of the documents that contain "serial" when lower-cased
SerialWords == {"serial-number", "serial", "serial-console"}

\* "serial" in json.dumps(data).lower()
MentionsSerial(data) == Strings(data) \cap SerialWords # {}

\* body of the candidate loop of collect_device_info.get_serial_number
ExtractGated(data) == IF MentionsSerial(data) THEN Extract(data) ELSE None

\* A slip of the early return: the loop goes on to the next candidate after a hit.
AfterProbeExhaust(sn, idx) == IF idx = Len(Candidates) THEN "returned" ELSE "probe"

\* where get_serial_number goes after candidate idx gave sn
AfterProbe(sn, idx) ==
    IF Truthy(sn) THEN "returned"
    ELSE IF idx = Len(Candidates) THEN "returned"
    ELSE "probe"

InitSerial ==
    /\ s_prog \in {"collect_inventory", "collect_device_info"}
    /\ s_pc = "probe"
    /\ s_answers \in [1..Len(Candidates) -> SerialResponses]
    /\ s_idx = 1
    /\ s_reads = <<>>
    /\ s_result = None
    /\ IdlePush
    /\ IdleBuild
    /\ IdleMeraki

\* one iteration of the candidate loop
Probe(sn) ==
    /\ s_pc = "probe"
    /\ s_reads' = Append(s_reads, Candidates[s_idx])
    /\ s_result' = sn
    /\ s_pc' = AfterProbe(sn, s_idx)
    /\ s_idx' = s_idx + 1
    /\ UNCHANGED <<s_prog, s_answers>>
    /\ UNCHANGED <<pushVars, buildVars, merakiVars>>

\* collect_inventory.py lines 86-103
ProbeInventory ==
    /\ s_prog = "collect_inventory"
    /\ Probe(Extract(rc_get_data(s_answers[s_idx])))

\* collect_device_info.py lines 122-141
ProbeDeviceInfo ==
    /\ s_prog = "collect_device_info"
    /\ Probe(ExtractGated(rc_get_data(s_answers[s_idx])))

NextSerial ==
    \/ ProbeInventory
    \/ ProbeDeviceInfo

SpecSerial == InitSerial /\ [][NextSerial]_vars

----------------------------------------------------------------------------
(* Vocabulary of the properties *)

\* the status dicts built so far: the appended ones and the one in progress
Statuses == Range(overall_results) \cup {status}

\* every check record produced so far
CheckRecords == UNION { Range(st.checks) : st \in Statuses } \cup Range(results)

\* the requests device d received, in order
WireOf(d) == SelectSeq(wire, LAMBDA q : q.dev = d)
Writes(w) == SelectSeq(w, LAMBDA q : q.method \in {"PATCH", "PUT"})
Reads(w) == SelectSeq(w, LAMBDA q : q.method = "GET")

\* main() is past the apply block of device d
ApplyOver(d) ==
    \/ d < i
    \/ d = i /\ pc \in {"check", "check_loopbacks", "append"}

\* the status dict of device d, once the loop has reached it
StatusOf(d) == IF d <= Len(overall_results) THEN overall_results[d] ELSE status

\* the intent sets at least one key the native document carries
ManagesNative(it) ==
    \/ Truthy(DictGet(it.system, "hostname", None))
    \/ Truthy(DictGet(it.system, "domain_name", None))
    \/ Truthy(DictGet(it.system, "banner_motd", None))
    \/ DictGet(it.ntp, "servers", <<>>) # <<>>

HasDryRun(steps) == \E n \in 1..Len(steps) : steps[n].op = "dry-run"

Ops(steps) == [n \in 1..Len(steps) |-> steps[n].op]

----------------------------------------------------------------------------
(* C1 *)

\* C1: every check record has match = TRUE exactly when its actual value is
\* non-null and equal to the intended value; a record with a null actual never
\* has match = TRUE.
C1_MatchIffActualEqualsIntent ==
    \A rec \in CheckRecords :
        rec.match <=> (rec.actual # None /\ rec.actual = rec.intent)

----------------------------------------------------------------------------
(* C2 *)

\* the labels of the write operations the apply block issues for an intent
ExpectedOps(it) ==
    (IF ManagesNative(it) THEN <<"native-patch">> ELSE <<>>)
    \o [n \in 1..Len(it.loopbacks) |-> "put-" \o LoopbackName(it.loopbacks[n])]

\* C2: once a device has received a write, main() never leaves that device's
\* apply block without having issued every write operation of the intent and
\* recorded exactly one outcome per operation in steps, in issue order,
\* whichever of the operations failed (non-2xx status or transport error).
C2_EveryOperationRecorded ==
    \A d \in 1..Len(devices) :
        (Writes(WireOf(d)) # <<>> /\ ~(d = i /\ pc \in {"apply", "loopbacks"}))
            => /\ Len(Writes(WireOf(d))) = Len(ExpectedOps(intent))
               /\ Ops(StatusOf(d).steps) = ExpectedOps(intent)

----------------------------------------------------------------------------
(* C3 *)

\* C3: a run over a non-empty inventory ends with a report of exactly one
\* entry per device, entry n belonging to device n, whatever fails on the way.
C3_ReportHasEveryDevice ==
    (pc \in {"done", "crashed"} /\ devices # <<>>)
        => /\ summary # <<>>
           /\ Len(summary[1].results) = Len(devices)
           /\ \A n \in 1..Len(devices) : summary[1].results[n].host = devices[n].host

----------------------------------------------------------------------------
(* C4 *)

\* C4: a read that ends with a transport error or a status other than 200 gives
\* a check record with actual = null and match = FALSE; no exception leaves
\* check_hostname / check_loopbacks because of it.
C4_FailedReadIsRecorded ==
    /\ \A rec \in CheckRecords : rec.http # 200 => (rec.actual = None /\ ~rec.match)
    /\ (pc = "crashed" /\ exc = "ConnectionError") => wire[Len(wire)].method # "GET"

----------------------------------------------------------------------------
(* C5 *)

\* the status dicts whose steps list is complete
StepsComplete ==
    Range(overall_results)
    \cup (IF pc \in {"check", "check_loopbacks", "append"} THEN {status} ELSE {})

\* C5 (as claimed): a device's steps hold the "dry-run" marker exactly when
\* neither apply nor check is requested.
C5_DryRunIffNeither ==
    \A st \in StepsComplete : HasDryRun(st.steps) <=> (~args.apply /\ ~args.check)

\* C5 (amended): a device's steps hold the "dry-run" marker exactly when apply
\* is not requested (with or without check); when neither apply nor check is
\* requested the steps are the marker alone and no request reaches any device.
C5_DryRunIffNotApply ==
    /\ \A st \in StepsComplete : HasDryRun(st.steps) <=> ~args.apply
    /\ (~args.apply /\ ~args.check)
          => /\ wire = <<>>
             /\ \A st \in StepsComplete : Ops(st.steps) = <<"dry-run">> /\ st.checks = <<>>

\* a check-only run and a run with neither flag both finished, marker in place
C5_Witness ==
    /\ pc = "done"
    /\ ~args.apply
    /\ Len(overall_results) = 2
    /\ HasDryRun(overall_results[2].steps)
    /\ (args.check => Reads(wire) # <<>>)

----------------------------------------------------------------------------
(* C6 *)

\* C6: with apply requested, a device whose apply block is over has received
\* the native PATCH exactly when the intent sets hostname, domain_name,
\* banner_motd or a non-empty ntp.servers, i.e. exactly when the built native
\* document is non-empty; no device ever receives a PATCH otherwise.  For an
\* intent with none of these and no loopbacks no write is issued and no step
\* records a failure.
C6_PatchIffNativeNonEmpty ==
    /\ \A d \in 1..Len(devices) :
         /\ (\E n \in 1..Len(wire) : wire[n].dev = d /\ wire[n].method = "PATCH")
               => (args.apply /\ ManagesNative(intent))
         /\ (args.apply /\ ApplyOver(d) /\ ManagesNative(intent))
               => Len(SelectSeq(WireOf(d), LAMBDA q : q.method = "PATCH")) = 1
    /\ \A n \in 1..Len(wire) :
         wire[n].method = "PATCH" => DictGet(wire[n].data, NativeKey, <<>>) # <<>>
    /\ (~ManagesNative(intent) /\ lbs = <<>>)
          => /\ Writes(wire) = <<>>
             /\ \A st \in Statuses : \A n \in 1..Len(st.steps) : st.steps[n].ok

\* an apply run of an intent with an empty hostname and nothing else finished
\* with no write, next to which runs with a PATCH exist
C6_Witness ==
    /\ pc = "done"
    /\ args.apply
    /\ HasKey(intent.system, "hostname")
    /\ ~ManagesNative(intent)
    /\ lbs = <<>>
    /\ Len(overall_results) = 2
    /\ overall_results[2].steps = <<>>

----------------------------------------------------------------------------
(* C7 *)

BuiltNative == DictGet(b_body, NativeKey, <<>>)

\* C7: the document build_native_payload returns has the keys hostname,
\* ip (domain name), banner (motd) and ntp only when the intent has the field,
\* the value it carries is the intent's and is neither null nor empty, it has
\* no other key, and for a non-empty ntp.servers the server list has one
\* entry per server in input order.
C7_NativeDocumentFollowsIntent ==
    b_pc = "built" =>
        LET sys == b_intent.system
            servers == DictGet(b_intent.ntp, "servers", <<>>)
        IN  /\ HasKey(b_body, NativeKey) /\ Len(b_body) = 1
            /\ Range(Keys(BuiltNative)) \subseteq {"hostname", "ip", "banner", "ntp"}
            /\ \A n, m \in 1..Len(BuiltNative) : BuiltNative[n][1] = BuiltNative[m][1] => n = m
            /\ HasKey(BuiltNative, "hostname")
                  => /\ HasKey(sys, "hostname")
                     /\ DictGet(BuiltNative, "hostname", None) = DictGet(sys, "hostname", None)
                     /\ Truthy(DictGet(BuiltNative, "hostname", None))
            /\ HasKey(BuiltNative, "ip")
                  => /\ HasKey(sys, "domain_name")
                     /\ DictGet(BuiltNative, "ip", <<>>)
                           = << <<"domain", << <<"name", DictGet(sys, "domain_name", None)>> >> >> >>
                     /\ Truthy(DictGet(sys, "domain_name", None))
            /\ HasKey(BuiltNative, "banner")
                  => /\ HasKey(sys, "banner_motd")
                     /\ DictGet(BuiltNative, "banner", <<>>)
                           = << <<"motd", << <<"banner", DictGet(sys, "banner_motd", None)>> >> >> >>
                     /\ Truthy(DictGet(sys, "banner_motd", None))
            /\ HasKey(BuiltNative, "ntp")
                  => /\ HasKey(b_intent.ntp, "servers")
                     /\ servers # <<>>
            /\ servers # <<>>
                  => LET list == DictGet(DictGet(BuiltNative, "ntp", <<>>), "server", <<>>)
                     IN  /\ Len(list) = Len(servers)
                         /\ \A n \in 1..Len(servers) : list[n] = << <<"ip-address", servers[n]>> >>

\* a document built for an intent with a hostname, an empty domain name, no
\* banner and two NTP servers given in descending order
C7_Witness ==
    /\ b_pc = "built"
    /\ DictGet(b_intent.system, "hostname", None) = "BR1"
    /\ DictGet(b_intent.system, "domain_name", None) = ""
    /\ ~HasKey(b_intent.system, "banner_motd")
    /\ DictGet(b_intent.ntp, "servers", <<>>) = <<"192.0.2.2", "192.0.2.1">>
    /\ Keys(BuiltNative) = <<"hostname", "ntp">>

----------------------------------------------------------------------------
(* C8 *)

\* position of the first call named c in a call log, 0 if there is none
RECURSIVE FirstCall(_, _, _)
FirstCall(calls, c, from) ==
    IF from > Len(calls) THEN 0
    ELSE IF calls[from] = c THEN from
    ELSE FirstCall(calls, c, from + 1)

\* C8: the SSID apply issues writes that depend on the intent alone: no read of
\* the SSID precedes the update, and two invocations with the same intent issue
\* the same updates whatever the controller holds.
C8_WritesDependOnIntentOnly ==
    m_prog = "meraki_config" =>
        /\ FirstCall(m_calls, "updateNetworkWirelessSsid", 1) # 0
              => FirstCall(m_calls, "getNetworkWirelessSsid", 1) = 0
        /\ (m_run = 2 /\ m_pc = "done") => m_writes[1] = m_writes[2]

----------------------------------------------------------------------------
(* C9 *)

\* the items the intent manages, in order
ManagedItems(it) ==
    (IF DictGet(it.system, "hostname", None) # None THEN <<"hostname">> ELSE <<>>)
    \o [n \in 1..Len(it.loopbacks) |-> "interface-" \o LoopbackName(it.loopbacks[n])]

\* C9: with check requested, the check records of a finished device are one
\* per attribute the intent manages, in order: a hostname record exactly when
\* the intent has system.hostname, then one per loopback; an attribute the
\* intent does not mention gets no record and no read.
C9_ChecksFollowIntent ==
    args.check =>
        \A d \in 1..Len(overall_results) :
            /\ [n \in 1..Len(overall_results[d].checks) |-> overall_results[d].checks[n].item]
                  = ManagedItems(intent)
            /\ Len(Reads(WireOf(d))) = Len(ManagedItems(intent))

----------------------------------------------------------------------------
(* C10 *)

AbortMessages == {"SystemExit: Org not found", "SystemExit: Network not found in org"}

\* the selector of the intent names no organization or no network of the controller
NoSuchTarget ==
    \/ FirstNamed(m_orgs, m_intent.target.organization_name, 1) = 0
    \/ FirstNamed(m_nets, m_intent.target.network_name, 1) = 0

\* C10: when the selector matches nothing, the run is aborted by find_ids with
\* an abort message and neither reads nor updates the SSID.
C10_AbortAtSelector ==
    (m_prog # "none" /\ NoSuchTarget)
        => /\ m_pc \in {"find_ids", "aborted"}
           /\ m_pc = "aborted" => m_exit \in AbortMessages
           /\ \A n \in 1..Len(m_calls) :
                 m_calls[n] \notin {"getNetworkWirelessSsid", "updateNetworkWirelessSsid"}

----------------------------------------------------------------------------
(* C11 *)

\* the requests one device is to receive for an intent under the given flags:
\* the native PATCH if the native document is non-empty, one PUT per loopback
\* in intent order, then the hostname read and one read per loopback
ExpectedWire(it, d, flags) ==
    (IF flags.apply
     THEN (IF ManagesNative(it)
           THEN <<[dev |-> d, method |-> "PATCH", path |-> "Cisco-IOS-XE-native:native"]>>
           ELSE <<>>)
          \o [n \in 1..Len(it.loopbacks) |->
                [dev |-> d, method |-> "PUT",
                 path |-> "ietf-interfaces:interfaces/interface=Loopback"
                             \o ToString(it.loopbacks[n].name)]]
     ELSE <<>>)
    \o (IF flags.check
        THEN <<[dev |-> d, method |-> "GET", path |-> "Cisco-IOS-XE-native:native/hostname"]>>
             \o [n \in 1..Len(it.loopbacks) |->
                   [dev |-> d, method |-> "GET",
                    path |-> "ietf-interfaces:interfaces/interface=Loopback"
                                \o ToString(it.loopbacks[n].name)]]
        ELSE <<>>)

\* what a request log shows of each request: receiver, method and path
Seen(w) == [n \in 1..Len(w) |-> [dev |-> w[n].dev, method |-> w[n].method, path |-> w[n].path]]

IsPrefix(a, b) == Len(a) <= Len(b) /\ \A n \in 1..Len(a) : a[n] = b[n]

\* C11: the requests a device has received are at every moment an initial part
\* of: native PATCH (if any), one PUT per loopback in intent order to
\* interface=Loopback<name>, hostname read, one read per loopback in intent
\* order; a finished device has received all of them; the requests of one
\* device are consecutive in device order, and within them a read is never
\* followed by a write.
C11_OperationsInOrder ==
    /\ \A d \in 1..Len(devices) :
         /\ IsPrefix(Seen(WireOf(d)), ExpectedWire(intent, d, args))
         /\ d <= Len(overall_results) => Seen(WireOf(d)) = ExpectedWire(intent, d, args)
    /\ \A n \in 1..Len(wire) - 1 :
         /\ wire[n].dev <= wire[n + 1].dev
         /\ (wire[n].method = "GET" /\ wire[n + 1].dev = wire[n].dev) => wire[n + 1].method = "GET"

\* a run with apply and check over two devices and two loopbacks given in
\* descending order has finished: each device got 1 PATCH, 2 PUTs and 3 reads
C11_Witness ==
    /\ pc = "done"
    /\ args.apply /\ args.check
    /\ ManagesNative(intent)
    /\ Len(lbs) = 2 /\ lbs[1].name > lbs[2].name
    /\ Len(devices) = 2
    /\ Len(WireOf(1)) = 6 /\ Len(WireOf(2)) = 6

----------------------------------------------------------------------------
(* C12 *)

\* the managed fields the intent sets (non-null) whose value differs from the
\* SSID the run read
SetAndDiffering(ssid_spec, current) == Changes(DropNone(Desired(ssid_spec)), current)

\* the update calls of the current invocation
UpdatesNow == m_writes[m_run]

\* main() of meraki_config.py is past its apply block
SsidApplyOver == m_prog = "meraki_config" /\ m_pc = "done"

\* C12: once the SSID apply is over, an update has been issued exactly when
\* some managed field the intent sets differs from the SSID read, and it
\* carries exactly those fields: never a field the intent leaves out, never
\* a null; when the SSID equals the intent on every field the intent sets,
\* no update is issued.
C12_UpdateIsMinimalDiff ==
    SsidApplyOver =>
        LET diff == SetAndDiffering(m_intent.ssid, m_current)
        IN  /\ UpdatesNow = (IF diff # <<>> THEN <<diff>> ELSE <<>>)
            /\ \A n \in 1..Len(UpdatesNow) : \A f \in 1..Len(UpdatesNow[n]) :
                  /\ HasKey(m_intent.ssid, UpdatesNow[n][f][1])
                  /\ UpdatesNow[n][f][2] # None

----------------------------------------------------------------------------
(* C13 *)

\* the raw texts of the answers whose body does not parse
UnparsedTexts == { r.text : r \in { x \in HostnameResponses : x.content = "garbage" } }

\* C13: a read answered with a body that does not parse gives the caller no
\* data: no check record takes its actual value from the unparsed body (its
\* actual is null and its match FALSE), and nothing is raised because of it.
C13_UnparsedBodyIsNoData ==
    /\ \A rec \in CheckRecords : rec.actual \notin UnparsedTexts
    /\ \A r \in HostnameResponses : r.content = "garbage" => check_hostname_raises(r) = None

----------------------------------------------------------------------------
(* C14 *)

\* the serials a candidate's answer holds, in document order: those of the
\* inventory list, then the one of the information block; null and empty
\* values are no serial
SerialsIn(r) ==
    LET data == IF r.raise \/ r.status_code >= 400 \/ r.content # "json" THEN <<>> ELSE r.json
        inv == DictGet(data, InventoryKey, <<>>)
        info == DictGet(data, InformationKey, <<>>)
        OneOf(item) == SelectSeq(<<DictGet(item, "serial-number", None), DictGet(item, "serial", None)>>,
                                 Truthy)
        Head1(q) == IF q = <<>> THEN <<>> ELSE <<q[1]>>
        RECURSIVE Flat(_)
        Flat(n) == IF n > Len(inv) THEN <<>> ELSE Head1(OneOf(inv[n])) \o Flat(n + 1)
    IN  Flat(1) \o Head1(OneOf(info))

\* the candidates whose answer holds a serial
Yielding == { c \in 1..Len(Candidates) : SerialsIn(s_answers[c]) # <<>> }

\* C14: get_serial_number reads the candidate paths in list order; it returns
\* the first serial of the first candidate whose answer holds one and has then
\* read no later candidate; candidates whose read fails or holds no serial are
\* passed over; it returns null exactly when no candidate holds a serial,
\* after reading them all.
C14_FirstCandidateWins ==
    /\ s_prog # "none" => IsPrefix(s_reads, Candidates)
    /\ s_pc = "returned" =>
          IF Yielding = {}
          THEN s_result = None /\ s_reads = Candidates
          ELSE LET c == CHOOSE x \in Yielding : \A y \in Yielding : x <= y
               IN  /\ s_result = SerialsIn(s_answers[c])[1]
                   /\ s_reads = SubSeq(Candidates, 1, c)

\* the first candidate holds serials SN1 and SN2, the second holds SN3:
\* SN1 was returned after one read
C14_Witness ==
    /\ s_pc = "returned"
    /\ SerialsIn(s_answers[1]) = <<"SN1", "SN2">>
    /\ SerialsIn(s_answers[2]) = <<"SN3">>
    /\ s_result = "SN1"
    /\ Len(s_reads) = 1

====
